---------------------------- MODULE Spec2Model ----------------------------
(***************************************************************************)
(* Model of src/handler.go: the Lambda handler HandleLambdaEvent, which    *)
(* looks up a CodePipeline execution, finds its SourceArtifact revision,   *)
(* resolves the GitHub repository from the revision URL (extractRepoName), *)
(* maps the execution status and POSTs a commit status to GitHub.          *)
(*                                                                         *)
(* Strings are sequences of tokens.  A token is a run of characters that   *)
(* the program never looks inside ("acme", "github.com") or a character    *)
(* it does look at ("/", "?", "&", "=", ":") or a percent escape ("%2F",   *)
(* a valid escape of "/"; "%zz", an invalid escape).  The empty string is  *)
(* the empty sequence and concatenation is \o.                             *)
(***************************************************************************)
EXTENDS Integers, Sequences, FiniteSets

\* ------------------------------------------------------------------ bounds
\* Longest raw path (in tokens) of the enumerated revision URLs.
MaxPathLen == 5
\* Longest raw query (in tokens) of the enumerated revision URLs.
MaxQueryLen == 4
\* Most artifact revisions in an enumerated pipeline execution.
MaxArtifacts == 2

\* ------------------------------------------------------------ string tools
SeqsUpTo(S, n) == UNION {[1..k -> S] : k \in 0..n}

\* strings.Index for a one-token separator: the first position of sep in s, 0 if none.
Index(s, sep) ==
    IF \E i \in 1..Len(s) : s[i] = sep
    THEN CHOOSE i \in 1..Len(s) : s[i] = sep /\ \A j \in 1..(i-1) : s[j] # sep
    ELSE 0

\* s[from:] of Go, with 1-based from.
From(s, from) == SubSeq(s, from, Len(s))

\* strings.Split(s, sep): the pieces between the separators; a string without
\* separator (the empty string too) is one piece.
RECURSIVE Split(_, _)
Split(s, sep) ==
    LET i == Index(s, sep)
    IN  IF i = 0 THEN <<s>>
        ELSE <<SubSeq(s, 1, i-1)>> \o Split(From(s, i+1), sep)

\* strconv.Itoa / the %d verb, for n >= 0.
Digit(d) == CASE d = 0 -> "0" [] d = 1 -> "1" [] d = 2 -> "2" [] d = 3 -> "3"
              [] d = 4 -> "4" [] d = 5 -> "5" [] d = 6 -> "6" [] d = 7 -> "7"
              [] d = 8 -> "8" [] d = 9 -> "9"
RECURSIVE Itoa(_)
Itoa(n) == IF n < 10 THEN <<Digit(n)>> ELSE Itoa(n \div 10) \o <<Digit(n % 10)>>

\* ------------------------------------------------------------- net/url
\* The percent escapes of the token alphabet.
BadEscape == "%zz"
HasBadEscape(s) == \E i \in 1..Len(s) : s[i] = BadEscape

\* url.unescape: a valid escape becomes the character it stands for.
Unescape(s) == [i \in 1..Len(s) |-> IF s[i] = "%2F" THEN "/" ELSE s[i]]

Nil == <<>>
NoURL == [Scheme |-> <<>>, Host |-> <<>>, Path |-> <<>>, RawPath |-> <<>>, RawQuery |-> <<>>]

\* url.Parse(raw): the scheme, then the query cut off at the first "?", then
\* the authority between "//" and the next "/", then the path, unescaped.
\* It fails on an invalid percent escape in the path.
Parse(raw) ==
    LET hasScheme == Len(raw) >= 1 /\ raw[1] = "https:"
        rest0 == IF hasScheme THEN Tail(raw) ELSE raw
        q == Index(rest0, "?")
        rest1 == IF q = 0 THEN rest0 ELSE SubSeq(rest0, 1, q-1)
        rawQuery == IF q = 0 THEN <<>> ELSE From(rest0, q+1)
        hasAuth == Len(rest1) >= 2 /\ rest1[1] = "/" /\ rest1[2] = "/"
        afterAuth == IF hasAuth THEN From(rest1, 3) ELSE rest1
        slash == Index(afterAuth, "/")
        authority == IF ~hasAuth THEN <<>>
                     ELSE IF slash = 0 THEN afterAuth
                     ELSE SubSeq(afterAuth, 1, slash-1)
        path == IF ~hasAuth THEN rest1
                ELSE IF slash = 0 THEN <<>>
                ELSE From(afterAuth, slash)
    IN  IF HasBadEscape(path)
        THEN [url |-> NoURL, err |-> <<"parse: invalid URL escape">>]
        ELSE [url |-> [Scheme |-> IF hasScheme THEN <<"https">> ELSE <<>>,
                       Host |-> authority,
                       Path |-> Unescape(path),
                       RawPath |-> path,
                       RawQuery |-> rawQuery],
              err |-> Nil]

\* (*URL).Hostname: the host without its port.
Hostname(u) ==
    LET colon == Index(u.Host, ":")
    IN  IF colon = 0 THEN u.Host ELSE SubSeq(u.Host, 1, colon-1)

\* (*URL).String, as the %v verb prints it.
URLString(u) ==
    (IF u.Scheme = <<>> THEN <<>> ELSE u.Scheme \o <<":">>)
    \o (IF u.Scheme # <<>> \/ u.Host # <<>> THEN <<"/", "/">> ELSE <<>>)
    \o u.Host \o u.RawPath
    \o (IF u.RawQuery = <<>> THEN <<>> ELSE <<"?">> \o u.RawQuery)

\* url.ParseQuery as (*URL).Query uses it: the pairs between "&", each cut at
\* its first "="; an empty pair and a pair with an invalid escape are dropped.
\* The values are kept in the order of the query: a sequence of <<key, value>>.
RECURSIVE ParsePairs(_)
ParsePairs(pairs) ==
    IF pairs = <<>> THEN <<>>
    ELSE LET kv == Head(pairs)
             eq == Index(kv, "=")
             key == IF eq = 0 THEN kv ELSE SubSeq(kv, 1, eq-1)
             value == IF eq = 0 THEN <<>> ELSE From(kv, eq+1)
         IN  IF kv = <<>> \/ HasBadEscape(key) \/ HasBadEscape(value)
             THEN ParsePairs(Tail(pairs))
             ELSE <<<<Unescape(key), Unescape(value)>>>> \o ParsePairs(Tail(pairs))

Query(u) == ParsePairs(Split(u.RawQuery, "&"))

\* url.Values.Get: the first value of the key, "" when the key is absent.
RECURSIVE Get(_, _)
Get(values, key) ==
    IF values = <<>> THEN <<>>
    ELSE IF Head(values)[1] = key THEN Head(values)[2]
    ELSE Get(Tail(values), key)

\* ------------------------------------------------------- extractRepoName
GithubHost == <<"github.com">>
ConsoleHost == <<"eu-west-1.console.aws.amazon.com">>
RedirectPath == <<"/", "codesuite", "/", "settings", "/", "connections", "/", "redirect">>
RepoParam == <<"FullRepositoryId">>

\* Variants of extractRepoName with one slip each: a path needing one piece
\* more, the redirect path left unchecked, an unknown host taken for github.com.
extractRepoNameFourPieces(u) ==
    IF Hostname(u) = GithubHost
    THEN LET p == Split(u.Path, "/")
         IN  IF Len(p) < 4
             THEN [repo |-> <<>>, err |-> <<"too few path components">>]
             ELSE [repo |-> p[2] \o <<"/">> \o p[3], err |-> Nil]
    ELSE IF Hostname(u) = ConsoleHost
    THEN IF u.Path # RedirectPath
         THEN [repo |-> <<>>, err |-> <<"unexpected URL path: ">> \o u.Path]
         ELSE LET repo == Get(Query(u), RepoParam)
              IN  IF repo = <<>>
                  THEN [repo |-> <<>>, err |-> <<"missing FullRepositoryId URL param">>]
                  ELSE [repo |-> repo, err |-> Nil]
    ELSE [repo |-> <<>>, err |-> <<"unknown hostname ">> \o Hostname(u)]

extractRepoNameAnyPath(u) ==
    IF Hostname(u) = GithubHost
    THEN LET p == Split(u.Path, "/")
         IN  IF Len(p) < 3
             THEN [repo |-> <<>>, err |-> <<"too few path components">>]
             ELSE [repo |-> p[2] \o <<"/">> \o p[3], err |-> Nil]
    ELSE IF Hostname(u) = ConsoleHost
    THEN LET repo == Get(Query(u), RepoParam)
         IN  IF repo = <<>>
             THEN [repo |-> <<>>, err |-> <<"missing FullRepositoryId URL param">>]
             ELSE [repo |-> repo, err |-> Nil]
    ELSE [repo |-> <<>>, err |-> <<"unknown hostname ">> \o Hostname(u)]

extractRepoNameElseGithub(u) ==
    IF Hostname(u) = ConsoleHost
    THEN IF u.Path # RedirectPath
         THEN [repo |-> <<>>, err |-> <<"unexpected URL path: ">> \o u.Path]
         ELSE LET repo == Get(Query(u), RepoParam)
              IN  IF repo = <<>>
                  THEN [repo |-> <<>>, err |-> <<"missing FullRepositoryId URL param">>]
                  ELSE [repo |-> repo, err |-> Nil]
    ELSE LET p == Split(u.Path, "/")
         IN  IF Len(p) < 3
             THEN [repo |-> <<>>, err |-> <<"too few path components">>]
             ELSE [repo |-> p[2] \o <<"/">> \o p[3], err |-> Nil]

extractRepoName(u) ==
    IF Hostname(u) = GithubHost
    THEN LET p == Split(u.Path, "/")
         IN  IF Len(p) < 3
             THEN [repo |-> <<>>, err |-> <<"too few path components">>]
             ELSE [repo |-> p[2] \o <<"/">> \o p[3], err |-> Nil]
    ELSE IF Hostname(u) = ConsoleHost
    THEN IF u.Path # RedirectPath
         THEN [repo |-> <<>>, err |-> <<"unexpected URL path: ">> \o u.Path]
         ELSE LET repo == Get(Query(u), RepoParam)
              IN  IF repo = <<>>
                  THEN [repo |-> <<>>, err |-> <<"missing FullRepositoryId URL param">>]
                  ELSE [repo |-> repo, err |-> Nil]
    ELSE [repo |-> <<>>, err |-> <<"unknown hostname ">> \o Hostname(u)]

\* ------------------------------------------------------------- mapStatus
\* A variant of mapStatus that takes the "Stopped" label for one in progress.
mapStatusStoppedPending(status) ==
    IF status = <<"InProgress">> \/ status = <<"Stopped">> THEN <<"pending">>
    ELSE IF status = <<"Succeeded">> THEN <<"success">>
    ELSE <<"failure">>

mapStatus(status) ==
    IF status = <<"InProgress">> THEN <<"pending">>
    ELSE IF status = <<"Succeeded">> THEN <<"success">>
    ELSE <<"failure">>


\* ------------------------------------------------------------------ inputs
\* "https://" host path [ "?" query ], as the pipeline reports a revision URL.
MkURL(host, path, query) ==
    <<"https:", "/", "/">> \o host \o path
    \o (IF query = <<>> THEN <<>> ELSE <<"?">> \o query)

\* The events the trigger may deliver: each field present or empty.
Events ==
    [ExecutionID : {<<>>, <<"exec1">>},
     GithubToken : {<<>>, <<"tok">>},
     Pipeline : {<<>>, <<"pipe1">>}]

\* Revisions (RevisionId, RevisionUrl) a pipeline execution may report.
SampleRevisions ==
    { [RevisionId |-> <<"abc123">>,
       RevisionUrl |-> MkURL(GithubHost, <<"/", "acme", "/", "widgets", "/", "commit", "/", "abc123">>, <<>>)],
      [RevisionId |-> <<"def456">>,
       RevisionUrl |-> MkURL(ConsoleHost, RedirectPath,
                             <<"Commit", "=", "def456", "&", "FullRepositoryId", "=", "foo", "/", "bar">>)],
      [RevisionId |-> <<"abc123">>,
       RevisionUrl |-> MkURL(<<"www.", "github.com">>, <<"/", "acme", "/", "widgets">>, <<>>)],
      [RevisionId |-> <<"abc123">>,
       RevisionUrl |-> MkURL(<<"us-east-1.console.aws.amazon.com">>, RedirectPath,
                             <<"FullRepositoryId", "=", "acme", "/", "widgets">>)],
      [RevisionId |-> <<"abc123">>, RevisionUrl |-> <<>>],
      [RevisionId |-> <<BadEscape>>,
       RevisionUrl |-> MkURL(GithubHost, <<"/", "acme", "/", "widgets">>, <<>>)],
      [RevisionId |-> <<"abc123">>,
       RevisionUrl |-> MkURL(GithubHost, <<"/", "acme", "/", BadEscape>>, <<>>)],
      [RevisionId |-> <<"def456">>,
       RevisionUrl |-> MkURL(GithubHost, <<"/", "acme">>, <<>>)],
      [RevisionId |-> <<"def456">>,
       RevisionUrl |-> MkURL(ConsoleHost, RedirectPath \o <<"/">>,
                             <<"FullRepositoryId", "=", "foo", "/", "bar">>)],
      [RevisionId |-> <<"abc123">>,
       RevisionUrl |-> MkURL(ConsoleHost, RedirectPath, <<"Commit", "=", "abc123">>)] }

Artifact(name, r) ==
    [Name |-> name, RevisionId |-> r.RevisionId, RevisionUrl |-> r.RevisionUrl]

SourceArtifactName == <<"SourceArtifact">>

Artifacts ==
    {Artifact(SourceArtifactName, r) : r \in SampleRevisions}
    \cup {Artifact(<<"BuildArtifact">>, r) :
            r \in {x \in SampleRevisions : x.RevisionId = <<"def456">>}}

SampleStatuses == {<<"InProgress">>, <<"Succeeded">>, <<"Failed">>}

\* The answers of GetPipelineExecution in the first specification: any status
\* with any short list of artifact revisions.
Executions ==
    [Status : SampleStatuses, ArtifactRevisions : SeqsUpTo(Artifacts, MaxArtifacts)]

\* The hosts, raw paths and raw queries of the second specification.
Hosts ==
    { GithubHost, GithubHost \o <<":", "443">>, ConsoleHost, <<>>,
      <<"www.", "github.com">>, <<"GitHub.com">>, <<"us-east-1.console.aws.amazon.com">> }

PathTokens == {"/", "a", "b", "%2F", BadEscape}
Paths ==
    {p \in SeqsUpTo(PathTokens, MaxPathLen) : p = <<>> \/ p[1] = "/"}
    \cup {RedirectPath, RedirectPath \o <<"/">>, RedirectPath \o <<"/", "a">>}

QueryTokens == {"FullRepositoryId", "=", "&", "a", "/", "%2F"}
Queries == SeqsUpTo(QueryTokens, MaxQueryLen)
SampleQueries ==
    { <<>>,
      <<"FullRepositoryId", "=", "acme", "/", "widgets">>,
      <<"FullRepositoryId", "=", "&", "FullRepositoryId", "=", "a", "/", "b">>,
      <<"x", "=", BadEscape, "&", "FullRepositoryId", "=", "a", "%2F", "b">> }

SamplePaths == {<<>>, <<"/", "a", "/", "b">>, RedirectPath, RedirectPath \o <<"/">>}

\* Every host with every path, every host with some paths and queries, and
\* the console host with every query.
Locators ==
    {MkURL(h, p, <<>>) : h \in Hosts, p \in Paths}
    \cup {MkURL(h, p, q) : h \in Hosts, p \in SamplePaths, q \in SampleQueries}
    \cup {MkURL(ConsoleHost, p, q) :
            p \in {RedirectPath, RedirectPath \o <<"/">>}, q \in Queries}

AllStatuses ==
    SampleStatuses \cup { <<>>, <<"Stopped">>, <<"Superseded">>, <<"Stopping">>,
                          <<"succeeded">>, <<"INPROGRESS">>, <<"In", "Progress">>,
                          <<"Succeeded", " ">>, <<"pending">>, <<"xyzzy">> }

\* The answers of GetPipelineExecution in the second specification: one
\* SourceArtifact revision, with any locator or with any status.
LocatorExecutions ==
    {[Status |-> <<"Succeeded">>,
      ArtifactRevisions |-> <<[Name |-> SourceArtifactName, RevisionId |-> <<"abc123">>,
                               RevisionUrl |-> l]>>] : l \in Locators}
    \cup
    {[Status |-> s,
      ArtifactRevisions |-> <<[Name |-> SourceArtifactName, RevisionId |-> <<"abc123">>,
                               RevisionUrl |-> MkURL(GithubHost,
                                   <<"/", "acme", "/", "widgets", "/", "commit", "/", "abc123">>, <<>>)]>>]
        : s \in AllStatuses}

LookupErrors == {<<"PipelineExecutionNotFoundException">>}

\* What client.Do may come back with: a transport error, or a response.
StatusCodes == {200, 201, 422, 500}
Bodies == {<<>>, <<"{", "Validation Failed", "}">>}
Responses == [StatusCode : StatusCodes, Body : Bodies]
TransportErrors == {<<"Post: dial tcp: i/o timeout">>}

\* ------------------------------------------------------------------- state
VARIABLES
    ev,          \* the event of the invocation
    pc,          \* the statement HandleLambdaEvent is at
    res,         \* what GetPipelineExecution returned
    sourceArti,  \* <<>> (nil) or <<the artifact revision found>>
    rev,         \* the revision id
    url,         \* the parsed revision URL
    ghStatus,    \* the mapped status
    repo,        \* the repository extractRepoName returned
    ghReq,       \* <<>> or <<the request built>>
    ghRes,       \* <<>> or <<the response received>>
    err,         \* the error HandleLambdaEvent returns (Nil: none)
    trace,       \* the steps run so far, in order
    sent         \* the requests handed to client.Do, in order

vars == <<ev, pc, res, sourceArti, rev, url, ghStatus, repo, ghReq, ghRes, err, trace, sent>>

NoExecution == [Status |-> <<>>, ArtifactRevisions |-> <<>>]

Init ==
    /\ ev \in Events
    /\ pc = "validate"
    /\ res = NoExecution
    /\ sourceArti = <<>>
    /\ rev = <<>>
    /\ url = NoURL
    /\ ghStatus = <<>>
    /\ repo = <<>>
    /\ ghReq = <<>>
    /\ ghRes = <<>>
    /\ err = Nil
    /\ trace = <<>>
    /\ sent = <<>>

\* return e: the invocation ends with the error e (Nil: success).
Return(e) == pc' = "done" /\ err' = e

\* The step taken is recorded; nothing else is touched besides what the step names.
Step(name) == trace' = Append(trace, name)

\* ------------------------------------------------------- HandleLambdaEvent
\* The three checks of the event, in the order of the code.
\* A variant of validate that checks the token before the execution id.
validateTokenFirst(e) ==
    IF e.GithubToken = <<>> THEN <<"missing event param github-token">>
    ELSE IF e.ExecutionID = <<>> THEN <<"missing event param execution-id">>
    ELSE IF e.Pipeline = <<>> THEN <<"missing event param pipeline">>
    ELSE Nil

validate(e) ==
    IF e.ExecutionID = <<>> THEN <<"missing event param execution-id">>
    ELSE IF e.GithubToken = <<>> THEN <<"missing event param github-token">>
    ELSE IF e.Pipeline = <<>> THEN <<"missing event param pipeline">>
    ELSE Nil

Validate ==
    /\ pc = "validate"
    /\ Step("validate")
    /\ IF validate(ev) # Nil
       THEN Return(validate(ev))
       ELSE pc' = "lookup" /\ err' = err
    /\ UNCHANGED <<ev, res, sourceArti, rev, url, ghStatus, repo, ghReq, ghRes, sent>>

\* cpSvc.GetPipelineExecution: the service answers with an error or with one
\* of the executions E.  (Creating the session and the client is taken to
\* succeed; an answer without error carries a PipelineExecution.)
GetPipelineExecution(E) ==
    /\ pc = "lookup"
    /\ Step("lookup")
    /\ \/ \E e \in LookupErrors : Return(e) /\ res' = res
       \/ \E x \in E : res' = x /\ pc' = "search" /\ err' = err
    /\ UNCHANGED <<ev, sourceArti, rev, url, ghStatus, repo, ghReq, ghRes, sent>>

\* The loop over the artifact revisions: it stops at the first one named
\* SourceArtifact.
\* Variants of the search: one without the break (the last match wins), one
\* that looks at the first revision only.
RECURSIVE findLastSourceArtifact(_)
findLastSourceArtifact(as) ==
    IF as = <<>> THEN <<>>
    ELSE IF as[Len(as)].Name = SourceArtifactName THEN <<as[Len(as)]>>
    ELSE findLastSourceArtifact(SubSeq(as, 1, Len(as) - 1))

findHeadSourceArtifact(as) ==
    IF as # <<>> /\ Head(as).Name = SourceArtifactName THEN <<Head(as)>> ELSE <<>>

RECURSIVE findSourceArtifact(_)
findSourceArtifact(as) ==
    IF as = <<>> THEN <<>>
    ELSE IF Head(as).Name = SourceArtifactName THEN <<Head(as)>>
    ELSE findSourceArtifact(Tail(as))

FindSourceArtifact ==
    /\ pc = "search"
    /\ Step("search")
    /\ sourceArti' = findSourceArtifact(res.ArtifactRevisions)
    /\ IF sourceArti' = <<>>
       THEN Return(<<"missing SourceArtifact">>)
       ELSE pc' = "parse" /\ err' = err
    /\ UNCHANGED <<ev, res, rev, url, ghStatus, repo, ghReq, ghRes, sent>>

ParseRevisionUrl ==
    /\ pc = "parse"
    /\ Step("parse")
    /\ rev' = sourceArti[1].RevisionId
    /\ LET r == Parse(sourceArti[1].RevisionUrl)
       IN  /\ url' = r.url
           /\ IF r.err # Nil THEN Return(r.err) ELSE pc' = "map" /\ err' = err
    /\ UNCHANGED <<ev, res, sourceArti, ghStatus, repo, ghReq, ghRes, sent>>

MapStatus ==
    /\ pc = "map"
    /\ Step("map")
    /\ ghStatus' = mapStatus(res.Status)
    /\ pc' = "resolve"
    /\ UNCHANGED <<ev, res, sourceArti, rev, url, repo, ghReq, ghRes, err, sent>>

ResolveRepo ==
    /\ pc = "resolve"
    /\ Step("resolve")
    /\ LET r == extractRepoName(url)
       IN  /\ repo' = r.repo
           /\ IF r.err # Nil
              THEN Return(<<"failed to extract repo name from artifact url ">>
                          \o URLString(url) \o <<": ">> \o r.err)
              ELSE pc' = "build" /\ err' = err
    /\ UNCHANGED <<ev, res, sourceArti, rev, url, ghStatus, ghReq, ghRes, sent>>

Region == <<"eu-west-1">>
StatusContext == <<"continuous-integration/codepipeline">>

deepLink(e) ==
    <<"https:", "/", "/">> \o Region \o <<".console.aws.amazon.com">>
    \o <<"/", "codesuite", "/", "codepipeline", "/", "pipelines", "/">> \o e.Pipeline
    \o <<"/", "executions", "/">> \o e.ExecutionID

ghURL(r, c) ==
    <<"https:", "/", "/", "api.github.com", "/", "repos", "/">> \o r
    \o <<"/", "statuses", "/">> \o c

\* The ghReqPayload literal: Description is left at its zero value.
ghReqPayload(state, target) ==
    [State |-> state, TargetURL |-> target, Description |-> <<>>, Context |-> StatusContext]

\* http.NewRequest parses the URL it is given, and fails when that fails.
NewRequest(method, u, body) ==
    IF Parse(u).err # Nil
    THEN [req |-> <<>>, err |-> Parse(u).err]
    ELSE [req |-> <<[Method |-> method, URL |-> u, Body |-> body,
                     Header |-> [Accept |-> <<>>, Authorization |-> <<>>, ContentType |-> <<>>]]>>,
          err |-> Nil]

SetHeaders(req, token) ==
    [req EXCEPT !.Header = [Accept |-> <<"application/json">>,
                            Authorization |-> <<"token ">> \o token,
                            ContentType |-> <<"application/json; charset=utf-8">>]]

\* The deep link, the status URL, the payload and the request with its
\* headers.  Encoding the payload, a struct of four strings, cannot fail; the
\* body is kept as the struct encoded.
BuildRequest ==
    /\ pc = "build"
    /\ Step("build")
    /\ LET r == NewRequest("POST", ghURL(repo, rev), ghReqPayload(ghStatus, deepLink(ev)))
       IN  IF r.err # Nil
           THEN Return(r.err) /\ ghReq' = ghReq
           ELSE /\ ghReq' = <<SetHeaders(r.req[1], ev.GithubToken)>>
                /\ pc' = "send" /\ err' = err
    /\ UNCHANGED <<ev, res, sourceArti, rev, url, ghStatus, repo, ghRes, sent>>

\* A variant of the send that, after a first transport error, builds and
\* sends the request again.
SendRequestRetry ==
    /\ pc = "send"
    /\ Step("post")
    /\ sent' = Append(sent, ghReq[1])
    /\ \/ \E e \in TransportErrors :
            IF Len(sent) = 0
            THEN pc' = "build" /\ err' = err /\ ghRes' = ghRes
            ELSE Return(e) /\ ghRes' = ghRes
       \/ \E r \in Responses : ghRes' = <<r>> /\ pc' = "check" /\ err' = err
    /\ UNCHANGED <<ev, res, sourceArti, rev, url, ghStatus, repo, ghReq>>

\* client.Do: the request goes out once; a transport error or a response
\* comes back.
SendRequest ==
    /\ pc = "send"
    /\ Step("post")
    /\ sent' = Append(sent, ghReq[1])
    /\ \/ \E e \in TransportErrors : Return(e) /\ ghRes' = ghRes
       \/ \E r \in Responses : ghRes' = <<r>> /\ pc' = "check" /\ err' = err
    /\ UNCHANGED <<ev, res, sourceArti, rev, url, ghStatus, repo, ghReq>>

StatusCreated == 201

\* A variant of the check that takes every 2xx code for success.
checkResponseAny2xx(r) ==
    IF r.StatusCode < 200 \/ r.StatusCode >= 300
    THEN <<"unexpected response from GitHub: ">> \o Itoa(r.StatusCode)
         \o <<" body: ">> \o r.Body
    ELSE Nil

checkResponse(r) ==
    IF r.StatusCode # StatusCreated
    THEN <<"unexpected response from GitHub: ">> \o Itoa(r.StatusCode)
         \o <<" body: ">> \o r.Body
    ELSE Nil

CheckResponse ==
    /\ pc = "check"
    /\ Step("check")
    /\ Return(checkResponse(ghRes[1]))
    /\ UNCHANGED <<ev, res, sourceArti, rev, url, ghStatus, repo, ghReq, ghRes, sent>>

Next ==
    \/ Validate
    \/ GetPipelineExecution(Executions)
    \/ FindSourceArtifact
    \/ ParseRevisionUrl
    \/ MapStatus
    \/ ResolveRepo
    \/ BuildRequest
    \/ SendRequest
    \/ CheckResponse

Spec == Init /\ [][Next]_vars

\* The same handler, with the pipeline reporting one SourceArtifact revision
\* whose locator ranges over Locators and whose status over AllStatuses.
LocatorNext ==
    \/ Validate
    \/ GetPipelineExecution(LocatorExecutions)
    \/ FindSourceArtifact
    \/ ParseRevisionUrl
    \/ MapStatus
    \/ ResolveRepo
    \/ BuildRequest
    \/ SendRequest
    \/ CheckResponse

LocatorSpec == Init /\ [][LocatorNext]_vars

\* ------------------------------------------------------------ properties
Last(s) == s[Len(s)]
IsPrefix(s, t) == Len(s) <= Len(t) /\ SubSeq(t, 1, Len(s)) = s
IsSuffix(s, t) == Len(s) <= Len(t) /\ SubSeq(t, Len(t) - Len(s) + 1, Len(t)) = s
\* Whether sub occurs in s.
Contains(s, sub) ==
    \E i \in 0..(Len(s) - Len(sub)) : SubSeq(s, i+1, i+Len(sub)) = sub
Ran(step) == \E i \in 1..Len(trace) : trace[i] = step
\* The invocation returned an error out of the given step.
FailedAt(step) == pc = "done" /\ err # Nil /\ trace # <<>> /\ Last(trace) = step
\* The given step ran and did not return an error.
Passed(step) == Ran(step) /\ ~FailedAt(step)

StepOrder ==
    <<"validate", "lookup", "search", "parse", "map", "resolve", "build", "post", "check">>
\* Where the handler stands after n steps without an error.
PcAfter(n) ==
    <<"validate", "lookup", "search", "parse", "map", "resolve", "build", "send", "check", "done">>[n + 1]

ValidationErrors ==
    { <<"missing event param execution-id">>, <<"missing event param github-token">>,
      <<"missing event param pipeline">> }

\* The error a step may end the invocation with.
ErrorOfStep(step, e) ==
    CASE step = "validate" -> e \in ValidationErrors
      [] step = "lookup" -> e \in LookupErrors
      [] step = "search" -> e = <<"missing SourceArtifact">>
      [] step = "parse" -> e = <<"parse: invalid URL escape">>
      [] step = "map" -> FALSE
      [] step = "resolve" -> IsPrefix(<<"failed to extract repo name from artifact url ">>, e)
      [] step = "build" -> e = <<"parse: invalid URL escape">>
      [] step = "post" -> e \in TransportErrors
      [] step = "check" -> IsPrefix(<<"unexpected response from GitHub: ">>, e)

\* C1: the steps of an invocation run in the fixed linear order, none twice;
\* the status POST is sent at most once and only as the step after all of
\* validate, lookup, search, parse, map, resolve (and the request's
\* construction) passed; an error ends the invocation at once, with the error
\* of the step that failed, and with no POST sent unless the POST step itself
\* or the check of its response failed; success means every step ran.
C1_LinearFailFast ==
    /\ IsPrefix(trace, StepOrder)
    /\ Len(sent) = Cardinality({i \in 1..Len(trace) : trace[i] = "post"})
    /\ Len(sent) <= 1
    /\ pc # "done" => err = Nil /\ pc = PcAfter(Len(trace))
    /\ pc = "done" /\ err = Nil => trace = StepOrder
    /\ pc = "done" /\ err # Nil =>
         /\ trace # <<>>
         /\ ErrorOfStep(Last(trace), err)
         /\ Last(trace) \notin {"post", "check"} => sent = <<>>

C1_Witness == pc = "done" /\ err = Nil /\ Len(sent) = 1 /\ Len(res.ArtifactRevisions) = 2

\* The first artifact revision named SourceArtifact, by its position.
HasSource(as) == \E i \in 1..Len(as) : as[i].Name = <<"SourceArtifact">>
FirstSource(as) ==
    as[CHOOSE i \in 1..Len(as) :
          /\ as[i].Name = <<"SourceArtifact">>
          /\ \A j \in 1..(i-1) : as[j].Name # <<"SourceArtifact">>]

ExpectedState(status) ==
    CASE status = <<"InProgress">> -> <<"pending">>
      [] status = <<"Succeeded">> -> <<"success">>
      [] OTHER -> <<"failure">>

\* C2: a request that was sent is a POST to repos/{repo}/statuses/{commit},
\* repo resolved from the locator of the first SourceArtifact revision and
\* commit that revision's id; its state is the mapped execution status, its
\* target_url the eu-west-1 deep link of the event's pipeline and execution,
\* its context the fixed string, its description empty, and its Authorization
\* header carries the event's token.  With status Succeeded and a first
\* SourceArtifact abc123 at github.com/acme/widgets/commit/abc123 that is
\* state success, repo acme/widgets, commit abc123.
C2_RequestSent ==
    \A i \in 1..Len(sent) :
        LET a == FirstSource(res.ArtifactRevisions)
            r == sent[i]
        IN  /\ HasSource(res.ArtifactRevisions)
            /\ r.Method = "POST"
            /\ r.URL = <<"https:", "/", "/", "api.github.com", "/", "repos", "/">>
                       \o extractRepoName(Parse(a.RevisionUrl).url).repo
                       \o <<"/", "statuses", "/">> \o a.RevisionId
            /\ r.Body.State = ExpectedState(res.Status)
            /\ r.Body.TargetURL =
                 <<"https:", "/", "/", "eu-west-1", ".console.aws.amazon.com", "/",
                   "codesuite", "/", "codepipeline", "/", "pipelines", "/">>
                 \o ev.Pipeline \o <<"/", "executions", "/">> \o ev.ExecutionID
            /\ r.Body.Context = <<"continuous-integration/codepipeline">>
            /\ r.Body.Description = <<>>
            /\ r.Header.Authorization = <<"token ">> \o ev.GithubToken
            /\ ( /\ res.Status = <<"Succeeded">>
                 /\ a.RevisionId = <<"abc123">>
                 /\ a.RevisionUrl = <<"https:", "/", "/", "github.com", "/", "acme", "/",
                                      "widgets", "/", "commit", "/", "abc123">> )
               => /\ r.Body.State = <<"success">>
                  /\ r.URL = <<"https:", "/", "/", "api.github.com", "/", "repos", "/",
                               "acme", "/", "widgets", "/", "statuses", "/", "abc123">>

\* A request went out for an execution with two SourceArtifact revisions of
\* different commits and repositories.
C2_Witness ==
    /\ Len(sent) = 1
    /\ Len(res.ArtifactRevisions) = 2
    /\ res.ArtifactRevisions[1].Name = <<"SourceArtifact">>
    /\ res.ArtifactRevisions[2].Name = <<"SourceArtifact">>
    /\ res.ArtifactRevisions[1].RevisionId = <<"def456">>
    /\ res.ArtifactRevisions[2].RevisionId = <<"abc123">>
    /\ Parse(res.ArtifactRevisions[2].RevisionUrl).url.Host = <<"github.com">>
    /\ sent[1].Body.State = <<"pending">>

EmptyField(e) == e.ExecutionID = <<>> \/ e.GithubToken = <<>> \/ e.Pipeline = <<>>
FirstMissing(e) ==
    CASE e.ExecutionID = <<>> -> <<"missing event param execution-id">>
      [] e.ExecutionID # <<>> /\ e.GithubToken = <<>> -> <<"missing event param github-token">>
      [] e.ExecutionID # <<>> /\ e.GithubToken # <<>> -> <<"missing event param pipeline">>

\* C3: an event with an empty field fails at validation with the message of
\* its first empty field (execution-id, github-token, pipeline), before the
\* execution lookup and with no POST; an event with no empty field never
\* fails with a validation error.
C3_Validation ==
    /\ EmptyField(ev) /\ pc # "validate" =>
         /\ pc = "done"
         /\ err = FirstMissing(ev)
         /\ trace = <<"validate">>
         /\ sent = <<>>
         /\ res = NoExecution
    /\ ~EmptyField(ev) => err \notin ValidationErrors /\ (pc = "done" => Len(trace) >= 2)

C3_Witness ==
    /\ pc = "done" /\ ev.ExecutionID # <<>> /\ ev.GithubToken = <<>> /\ ev.Pipeline = <<>>
    /\ err = <<"missing event param github-token">>

\* The "/" of a string, by position.
SlashPositions(s) == {i \in 1..Len(s) : s[i] = "/"}
NSlashes(s) == Cardinality(SlashPositions(s))
NthSlash(s, n) ==
    CHOOSE i \in SlashPositions(s) : Cardinality({j \in SlashPositions(s) : j <= i}) = n
\* What lies between the n-th "/" and the next one (or the end).
SegmentAfter(s, n) ==
    SubSeq(s, NthSlash(s, n) + 1,
           IF NSlashes(s) > n THEN NthSlash(s, n + 1) - 1 ELSE Len(s))

\* The original C4: a repository identifier that extractRepoName returned has
\* exactly one "/" between two non-empty segments.
C4_RepoShape ==
    Passed("resolve") =>
        /\ NSlashes(repo) = 1
        /\ SegmentAfter(repo, 1) # <<>>
        /\ NthSlash(repo, 1) > 1

\* C5: for a github.com locator the resolver succeeds exactly when the path
\* has at least two "/" (three pieces when split), and then returns the piece
\* after the first "/", a "/", and the piece after the second "/", whatever
\* follows; otherwise it fails with "too few path components" and no POST.
C5_GithubPath ==
    Ran("resolve") /\ Hostname(url) = <<"github.com">> =>
        /\ NSlashes(url.Path) + 1 = Len(Split(url.Path, "/"))
        /\ NSlashes(url.Path) >= 2 =>
             /\ Passed("resolve")
             /\ repo = SegmentAfter(url.Path, 1) \o <<"/">> \o SegmentAfter(url.Path, 2)
        /\ NSlashes(url.Path) < 2 =>
             /\ FailedAt("resolve")
             /\ IsSuffix(<<": ", "too few path components">>, err)
             /\ sent = <<>>

C5_Witness ==
    /\ Passed("resolve") /\ Hostname(url) = <<"github.com">>
    /\ NSlashes(url.Path) = 3 /\ url.Path # url.RawPath /\ Len(sent) = 1

ConsoleRedirect == <<"/", "codesuite", "/", "settings", "/", "connections", "/", "redirect">>
\* A query that is the one pair FullRepositoryId=<value>, the value written
\* without escapes.
PlainRepoQuery(q) ==
    /\ Len(q) >= 2 /\ q[1] = "FullRepositoryId" /\ q[2] = "="
    /\ \A i \in 3..Len(q) : q[i] \notin {"&", "=", "%2F", "%zz", "FullRepositoryId"}

\* C6: for an eu-west-1.console.aws.amazon.com locator, a path other than
\* the redirect path fails with "unexpected URL path" whatever the query; on
\* the redirect path a FullRepositoryId that is absent or empty fails with
\* "missing FullRepositoryId URL param"; otherwise the value of the parameter
\* is returned as it is, so FullRepositoryId=acme/widgets gives acme/widgets.
C6_ConsoleRedirect ==
    Ran("resolve") /\ Hostname(url) = <<"eu-west-1.console.aws.amazon.com">> =>
        LET value == Get(Query(url), <<"FullRepositoryId">>)
        IN  /\ url.Path # ConsoleRedirect =>
                 /\ FailedAt("resolve")
                 /\ IsSuffix(<<": ", "unexpected URL path: ">> \o url.Path, err)
            /\ url.Path = ConsoleRedirect /\ value = <<>> =>
                 /\ FailedAt("resolve")
                 /\ IsSuffix(<<": ", "missing FullRepositoryId URL param">>, err)
            /\ url.Path = ConsoleRedirect /\ value # <<>> =>
                 /\ Passed("resolve")
                 /\ repo = value
            /\ url.Path = ConsoleRedirect /\ PlainRepoQuery(url.RawQuery) =>
                 /\ value = SubSeq(url.RawQuery, 3, Len(url.RawQuery))
            /\ url.Path = ConsoleRedirect /\ url.RawQuery = <<>> => value = <<>>
            /\ ( /\ url.Path = ConsoleRedirect
                 /\ url.RawQuery = <<"FullRepositoryId", "=", "acme", "/", "widgets">> )
               => repo = <<"acme", "/", "widgets">>

C6_Witness ==
    /\ Passed("resolve") /\ Hostname(url) = <<"eu-west-1.console.aws.amazon.com">>
    /\ url.RawQuery = <<"FullRepositoryId", "=", "acme", "/", "widgets">>
    /\ repo = <<"acme", "/", "widgets">>
    /\ pc = "done"

\* C7: with no artifact revision named SourceArtifact (an empty list too) the
\* invocation fails with "missing SourceArtifact" and nothing is sent; with
\* one or more, the first in the order of the list is the one used, and the
\* invocation does not fail with that error.
C7_SourceArtifact ==
    Ran("search") =>
        IF ~HasSource(res.ArtifactRevisions)
        THEN /\ FailedAt("search")
             /\ err = <<"missing SourceArtifact">>
             /\ sent = <<>>
        ELSE /\ sourceArti = <<FirstSource(res.ArtifactRevisions)>>
             /\ err # <<"missing SourceArtifact">>
             /\ Ran("parse")  => rev = FirstSource(res.ArtifactRevisions).RevisionId

C7_Witness ==
    /\ FailedAt("search") /\ Len(res.ArtifactRevisions) = 2 /\ sent = <<>>

CodeText(c) ==
    CASE c = 200 -> <<"2", "0", "0">> [] c = 201 -> <<"2", "0", "1">>
      [] c = 422 -> <<"4", "2", "2">> [] c = 500 -> <<"5", "0", "0">>

\* C8: once the POST was sent, the invocation succeeds exactly when the
\* response's status code is 201; after any other code it fails with an error
\* that holds the code and the body; a transport failure fails it too; and
\* the POST went out once.
C8_Response ==
    sent # <<>> /\ pc = "done" =>
        /\ Len(sent) = 1
        /\ ghRes = <<>> => err \in TransportErrors
        /\ ghRes # <<>> =>
             /\ err = Nil <=> ghRes[1].StatusCode = 201
             /\ ghRes[1].StatusCode # 201 =>
                  /\ err = <<"unexpected response from GitHub: ">>
                           \o CodeText(ghRes[1].StatusCode) \o <<" body: ">> \o ghRes[1].Body
                  /\ Contains(err, CodeText(ghRes[1].StatusCode))
                  /\ Contains(err, ghRes[1].Body)

C8_Witness ==
    /\ pc = "done" /\ ghRes # <<>> /\ ghRes[1].StatusCode = 422
    /\ ghRes[1].Body # <<>> /\ err # Nil /\ Len(sent) = 1

\* C9: the mapped status is "pending" for "InProgress", "success" for
\* "Succeeded" and "failure" for every other label (the empty one, "Failed",
\* "Stopped", "Superseded", other spellings); the mapping never fails.
C9_StatusMapping ==
    Ran("map") =>
        /\ ~FailedAt("map")
        /\ ghStatus \in {<<"pending">>, <<"success">>, <<"failure">>}
        /\ ghStatus = <<"pending">> <=> res.Status = <<"InProgress">>
        /\ ghStatus = <<"success">> <=> res.Status = <<"Succeeded">>
        /\ ghStatus = ExpectedState(res.Status)

C9_Witness ==
    Ran("map") /\ res.Status = <<"Superseded">> /\ ghStatus = <<"failure">> /\ pc = "done"

\* C10: a locator whose hostname is neither github.com nor
\* eu-west-1.console.aws.amazon.com (empty, a subdomain, another region's
\* console) fails in the resolver with "unknown hostname <hostname>", on any
\* path and query, and the invocation ends without a POST.
KnownHostnames == {<<"github.com">>, <<"eu-west-1.console.aws.amazon.com">>}
C10_UnknownHost ==
    /\ (Ran("resolve") /\ Hostname(url) \notin KnownHostnames) =>
           /\ FailedAt("resolve")
           /\ IsSuffix(<<": ", "unknown hostname ">> \o Hostname(url), err)
           /\ sent = <<>>
    /\ FailedAt("resolve") => sent = <<>>

C10_Witness ==
    /\ FailedAt("resolve") /\ Hostname(url) = <<"www.", "github.com">>
    /\ url.Path = <<"/", "a", "/", "b">>
    /\ url.RawQuery = <<"FullRepositoryId", "=", "acme", "/", "widgets">>

=============================================================================
